---- MODULE Spec2Model ----
(***************************************************************************)
(* Device tracker (src/device2.py): the device status lifecycle, the      *)
(* whole-table persistence through the spreadsheet store, the read cache  *)
(* and the destroy log.                                                    *)
(*                                                                         *)
(* Text cells are modelled as sequences of one-character strings so that  *)
(* str.strip() and str.upper() are computed, not assumed.  A worksheet is *)
(* a sequence of rows; a row is a record of its five cells.  The header   *)
(* row is an ordinary row whose cells hold the column labels.             *)
(***************************************************************************)
EXTENDS Integers, Sequences, FiniteSets, TLC

VARIABLES
    worksheets,   \* names of the worksheets that exist in the spreadsheet
    sheet,        \* rows of worksheet "devicestatus" (the Record Store)
    destroy_log,  \* rows of worksheet "destroy_log"
    cache,        \* st.cache_data entry of load_data: [valid, df]
    username,     \* st.session_state.username
    user_field,   \* st.session_state.user_field: the text of the "User" field
    now,          \* the wall clock, in seconds
    last,         \* what the most recent script run did (for stating properties)
    pc,           \* concurrent writers: where each writer is in load, mutate, save
    wdf,          \* concurrent writers: the table each writer is saving
    finished      \* concurrent writers: order in which the saves returned

vars == <<worksheets, sheet, destroy_log, cache, username, user_field, now, last, pc, wdf, finished>>

-----------------------------------------------------------------------------
(* Bounds of the model *)

MaxRows == 2      \* largest in-memory table a creating operation may extend
MaxLog == 1       \* largest number of destroy-log entries
MaxClock == 1     \* last clock value

-----------------------------------------------------------------------------
(* Text *)

\* Strings an operator can type or scan: empty, blank, two letter cases of one
\* serial, the same with leading / trailing white space, and a second serial.
InputStrings ==
    { <<>>, <<" ">>, <<"a">>, <<"A">>, <<" ", "a">>, <<"A", " ">>, <<"b">> }

\* Device names an operator can type: none, or the usual label
InputNames == { <<>>, <<"Legacy pro">> }

\* The values a form field is drawn from: all of S where the branch taken reads
\* the field, one value d where it does not
Field(read, S, d) == IF read THEN S ELSE {d}

UpperChar(c) ==
    CASE c = "a" -> "A"
      [] c = "b" -> "B"
      [] c = "n" -> "N"
      [] c = "Serial Number" -> "SERIAL NUMBER"
      [] c = "Device Name" -> "DEVICE NAME"
      [] c = "Legacy pro" -> "LEGACY PRO"
      [] OTHER -> c

RECURSIVE upper(_)
upper(s) == IF s = <<>> THEN <<>> ELSE <<UpperChar(Head(s))>> \o upper(Tail(s))

RECURSIVE lstrip(_)
lstrip(s) == IF s # <<>> /\ Head(s) = " " THEN lstrip(Tail(s)) ELSE s

RECURSIVE rstrip(_)
rstrip(s) ==
    IF s # <<>> /\ s[Len(s)] = " " THEN rstrip(SubSeq(s, 1, Len(s) - 1)) ELSE s

strip(s) == rstrip(lstrip(s))

\* datetime.now(ZoneInfo("Asia/Bangkok")).strftime("%Y-%m-%d %H:%M:%S")
strftime(t) == ToString(t)

-----------------------------------------------------------------------------
(* Configuration and constants *)

SHEET_NAME == "devicestatus"
DESTROY_LOG_NAME == "destroy_log"

\* REQUIRED_COLUMNS, as the row that append_row(REQUIRED_COLUMNS) writes
REQUIRED_COLUMNS ==
    [serial |-> <<"Serial Number">>, name |-> <<"Device Name">>, status |-> "Status",
     stamp |-> "Last Scanned/Added", by |-> "Scanned/Added By"]

DESTROY_LOG_COLUMNS ==
    [serial |-> <<"Serial Number">>, at |-> "Destroyed At", by |-> "By"]

READY == "Ready"
RETURN == "Return"
DESTROY == "Destroy"
DeviceStatus == <<READY, RETURN, DESTROY>>
DeviceStatusValues == { DeviceStatus[i] : i \in 1..Len(DeviceStatus) }

PlaceholderName == <<"Legacy pro">>
DefaultUsername == "Scanner"
batch_size == 100

-----------------------------------------------------------------------------
(* The spreadsheet and the cache, as one value threaded through a script run *)

World == [worksheets |-> worksheets, sheet |-> sheet, destroy_log |-> destroy_log,
          cache |-> cache]

NoCache == [valid |-> FALSE, df |-> <<>>]

RemoveAt(s, i) == SubSeq(s, 1, i - 1) \o SubSeq(s, i + 1, Len(s))

\* worksheet.get_all_records(): the first row gives the keys, every further row
\* is one record; a sheet with no row or one row has no records.
get_all_records(rows) == IF Len(rows) <= 1 THEN <<>> ELSE Tail(rows)

\* get_worksheet(): outcome "ok" returns the worksheet, creating it with its
\* header when it is missing; "fail" is an exception before the spreadsheet is
\* touched (None is returned); "header" creates the missing worksheet and fails
\* on the header append (None is returned).
GetWorksheetOutcomes(w) ==
    IF SHEET_NAME \in w.worksheets THEN {"ok", "fail"} ELSE {"ok", "fail", "header"}

get_worksheet(w, outcome) ==
    IF outcome = "fail" THEN [w |-> w, ok |-> FALSE]
    ELSE IF SHEET_NAME \in w.worksheets THEN [w |-> w, ok |-> TRUE]
    ELSE IF outcome = "header"
         THEN [w |-> [w EXCEPT !.worksheets = @ \cup {SHEET_NAME}, !.sheet = <<>>],
               ok |-> FALSE]
         ELSE [w |-> [w EXCEPT !.worksheets = @ \cup {SHEET_NAME},
                               !.sheet = <<REQUIRED_COLUMNS>>],
               ok |-> TRUE]

\* load_data(): a cache hit returns the cached table.  Otherwise "ok" fetches
\* the records, appending a header row when there are none; "fail" is
\* get_worksheet() returning None or a store call raising: the empty table is
\* returned.  st.cache_data caches whatever is returned.
LoadOutcomes(w) == IF w.cache.valid THEN {"hit"} ELSE {"ok", "fail"}

load_data(w, outcome) ==
    IF w.cache.valid THEN [w |-> w, df |-> w.cache.df]
    ELSE IF outcome = "fail"
         THEN [w |-> [w EXCEPT !.cache = [valid |-> TRUE, df |-> <<>>]], df |-> <<>>]
    ELSE LET data == get_all_records(w.sheet) IN
         IF data = <<>>
         THEN [w |-> [w EXCEPT !.sheet = Append(@, REQUIRED_COLUMNS),
                               !.cache = [valid |-> TRUE, df |-> <<>>]],
               df |-> <<>>]
         ELSE [w |-> [w EXCEPT !.cache = [valid |-> TRUE, df |-> data]], df |-> data]

\* The rows save_data appends in its batch with first row i
Batch(df, i) ==
    SubSeq(df, i, IF i + batch_size - 1 < Len(df) THEN i + batch_size - 1 ELSE Len(df))

RECURSIVE AppendBatches(_, _, _)
AppendBatches(rows, df, i) ==
    IF i > Len(df) THEN rows
    ELSE AppendBatches(rows \o Batch(df, i), df, i + batch_size)

\* save_data(df): "clear" is get_worksheet() returning None or clear() raising,
\* "header" the header append raising, "batch" the first append_rows raising
\* (an empty table has no append_rows call); "ok" writes everything, then
\* clears the cache.  Tables shorter than batch_size are written in one batch.
SaveOutcomes == {"ok", "clear", "header", "batch"}

\* save_data without its st.cache_data.clear()
save_data_keeps_cache(w, df, outcome) ==
    CASE outcome = "clear" -> [w |-> w, ok |-> FALSE]
      [] outcome = "header" -> [w |-> [w EXCEPT !.sheet = <<>>], ok |-> FALSE]
      [] outcome = "batch" /\ df # <<>> ->
            [w |-> [w EXCEPT !.sheet = <<REQUIRED_COLUMNS>>], ok |-> FALSE]
      [] OTHER ->
            [w |-> [w EXCEPT !.sheet = AppendBatches(<<REQUIRED_COLUMNS>>, df, 1)],
             ok |-> TRUE]

save_data(w, df, outcome) ==
    CASE outcome = "clear" -> [w |-> w, ok |-> FALSE]
      [] outcome = "header" -> [w |-> [w EXCEPT !.sheet = <<>>], ok |-> FALSE]
      [] outcome = "batch" /\ df # <<>> ->
            [w |-> [w EXCEPT !.sheet = <<REQUIRED_COLUMNS>>], ok |-> FALSE]
      [] OTHER ->
            [w |-> [w EXCEPT !.sheet = AppendBatches(<<REQUIRED_COLUMNS>>, df, 1),
                             !.cache = NoCache],
             ok |-> TRUE]

\* log_destroy(serial): "fail" is an exception that leaves the spreadsheet as it
\* was; "header" creates the missing log worksheet and fails on its header
\* append; "append" creates the missing log worksheet with its header and fails
\* on the entry append; "ok" appends the entry.
LogOutcomes(w) ==
    IF DESTROY_LOG_NAME \in w.worksheets THEN {"ok", "fail"}
    ELSE {"ok", "fail", "header", "append"}

\* log_destroy writing its entry over the log worksheet instead of appending it
log_destroy_overwrites(w, serial, t, user, outcome) ==
    IF outcome # "ok" THEN [w |-> w, ok |-> FALSE]
    ELSE [w |-> [w EXCEPT !.worksheets = @ \cup {DESTROY_LOG_NAME},
                          !.destroy_log =
                              <<[serial |-> serial, at |-> strftime(t), by |-> user]>>],
          ok |-> TRUE]

log_destroy(w, serial, t, user, outcome) ==
    IF outcome = "fail" THEN [w |-> w, ok |-> FALSE]
    ELSE LET missing == DESTROY_LOG_NAME \notin w.worksheets
             w1 == [w EXCEPT !.worksheets = @ \cup {DESTROY_LOG_NAME}]
             w2 == IF missing /\ outcome # "header"
                   THEN [w1 EXCEPT !.destroy_log = <<DESTROY_LOG_COLUMNS>>]
                   ELSE w1
         IN IF outcome \in {"header", "append"} THEN [w |-> w2, ok |-> FALSE]
            ELSE [w |-> [w2 EXCEPT !.destroy_log =
                            Append(@, [serial |-> serial, at |-> strftime(t), by |-> user])],
                  ok |-> TRUE]

-----------------------------------------------------------------------------
(* Utility functions *)

RECURSIVE FirstMatchFrom(_, _, _)
FirstMatchFrom(df, key, i) ==
    IF i > Len(df) THEN 0
    ELSE IF upper(df[i].serial) = key THEN i
    ELSE FirstMatchFrom(df, key, i + 1)

\* find_device_by_serial(df, serial): position of the first row whose serial
\* equals `serial` ignoring case, 0 for None.
find_device_by_serial(df, serial) ==
    IF df = <<>> \/ strip(serial) = <<>> THEN 0
    ELSE FirstMatchFrom(df, upper(serial), 1)

validate_device_input(serial, name) == strip(serial) # <<>> /\ strip(name) # <<>>

\* check_duplicate_serial(df, serial, exclude_idx); exclude_idx = 0 for None
check_duplicate_serial(df, serial, exclude_idx) ==
    /\ df # <<>>
    /\ \E i \in 1..Len(df) : upper(df[i].serial) = upper(serial) /\ i # exclude_idx

cycle_status(current_status) ==
    IF current_status = READY THEN RETURN
    ELSE IF current_status = RETURN THEN READY
    ELSE DESTROY

NewRow(serial, name, status, t, user) ==
    [serial |-> serial, name |-> name, status |-> status, stamp |-> strftime(t),
     by |-> user]

RECURSIVE DropMatching(_, _)
DropMatching(df, key) ==
    IF df = <<>> THEN <<>>
    ELSE IF upper(Head(df).serial) = key THEN DropMatching(Tail(df), key)
    ELSE <<Head(df)>> \o DropMatching(Tail(df), key)

-----------------------------------------------------------------------------
(* Barcode scanner *)

\* Which branch process_barcode_scan takes on (barcode_data, df)
ScanPath(barcode_data, df) ==
    LET data == strip(barcode_data)
        idx == find_device_by_serial(df, data)
    IN IF data = <<>> THEN "empty"
       ELSE IF idx = 0 THEN "create"
       ELSE IF df[idx].status = DESTROY THEN "destroyrow"
       ELSE "cycle"

\* NewScanRow with the status fixed instead of taken from default_status
NewScanRowReady(data, default_status, t, user) ==
    NewRow(data, PlaceholderName, READY, t, user)

\* The row process_barcode_scan builds for a serial it did not find
NewScanRow(data, default_status, t, user) ==
    NewRow(data, PlaceholderName, default_status, t, user)

\* The table process_barcode_scan goes on with after its lookup: the found row
\* dropped, the found row cycled and stamped, or the new row appended
ScanMutation(barcode_data, df, default_status, t, user) ==
    LET data == strip(barcode_data)
        idx == find_device_by_serial(df, data)
        path == ScanPath(barcode_data, df)
    IN CASE path = "empty" -> df
         [] path = "destroyrow" -> RemoveAt(df, idx)
         [] path = "cycle" ->
               [df EXCEPT ![idx].status = cycle_status(df[idx].status),
                          ![idx].stamp = strftime(t),
                          ![idx].by = user]
         [] OTHER -> Append(df, NewScanRow(data, default_status, t, user))

\* process_barcode_scan(barcode_data, df, default_status) in world w at time t:
\* [w, ok, df, saved]: the world after it, its first and its third return
\* value, and what its save_data call returned.
process_barcode_scan(w, barcode_data, df, default_status, t, user, logOut, saveOut) ==
    LET path == ScanPath(barcode_data, df)
        df1 == ScanMutation(barcode_data, df, default_status, t, user)
        lg == IF path = "destroyrow"
              THEN log_destroy(w, strip(barcode_data), t, user, logOut)
              ELSE [w |-> w, ok |-> FALSE]
        sv == save_data(lg.w, df1, saveOut)
    IN IF path = "empty" THEN [w |-> w, ok |-> FALSE, df |-> df, saved |-> FALSE]
       ELSE [w |-> sv.w, ok |-> sv.ok, df |-> df1, saved |-> sv.ok]

-----------------------------------------------------------------------------
(* Script runs.  Each run of main() is one step: get_worksheet(), load_data(), *)
(* then the selected menu with the submitted form.  A traced run also records *)
(* in `last` what it was given and what it returned.                          *)

NoRun == [op |-> "none", path |-> "none", arg |-> <<>>, status |-> "",
          df0 |-> <<>>, df1 |-> <<>>, ok |-> FALSE, saved |-> FALSE,
          log0 |-> <<>>, sheet0 |-> <<>>, t |-> 0]

\* op: the menu; path: the branch taken; arg: the serial typed or scanned;
\* status: the status selected; df0: the table load_data returned; df1: the
\* table the menu returned; ok: the result reported; saved: what save_data
\* returned; log0, sheet0: the destroy log and the device worksheet before the
\* run; t: the time of the run.
Run(op, path, arg, status, df0, R) ==
    [op |-> op, path |-> path, arg |-> arg, status |-> status,
     df0 |-> df0, df1 |-> R.df, ok |-> R.ok, saved |-> R.saved,
     log0 |-> destroy_log, sheet0 |-> sheet, t |-> now]

\* The entries of the destroy log: its rows other than the header row
RECURSIVE LogEntries(_)
LogEntries(rows) ==
    IF rows = <<>> THEN <<>>
    ELSE IF Head(rows) = DESTROY_LOG_COLUMNS THEN LogEntries(Tail(rows))
    ELSE <<Head(rows)>> \o LogEntries(Tail(rows))

\* Sequences of runs are cut off where a table or the destroy log would outgrow
\* the bounds; a single traced run needs no bound.
Commit(traced, w, run) ==
    /\ traced \/ Len(LogEntries(w.destroy_log)) <= MaxLog
    /\ traced \/ (run.path \in {"create", "add"} => Len(run.df0) < MaxRows)
    /\ worksheets' = w.worksheets
    /\ sheet' = w.sheet
    /\ destroy_log' = w.destroy_log
    /\ cache' = w.cache
    /\ IF traced THEN last' = run ELSE UNCHANGED last
    /\ UNCHANGED <<username, user_field, now, pc, wdf, finished>>

\* The world after main()'s own get_worksheet() call succeeded
Opened == get_worksheet(World, "ok").w

\* main(): get_worksheet() returns None, the run stops at the setup message
MainStoreUnavailable(traced) ==
    \E g \in GetWorksheetOutcomes(World) \ {"ok"} :
        Commit(traced, get_worksheet(World, g).w,
               Run("main", "unavailable", <<>>, "", <<>>,
                   [df |-> <<>>, ok |-> FALSE, saved |-> FALSE]))

\* menu_view_all / menu_search: the run only loads
MenuView(traced) ==
    \E lo \in LoadOutcomes(Opened) :
        LET L == load_data(Opened, lo)
        IN Commit(traced, L.w, Run("view", lo, <<>>, "", L.df,
                                   [df |-> L.df, ok |-> FALSE, saved |-> FALSE]))

\* menu_barcode_scanner: a submitted, non-empty barcode_input
MenuScanner(traced) ==
    \E lo \in LoadOutcomes(Opened) :
        LET L == load_data(Opened, lo) IN
        \E barcode_input \in InputStrings \ {<<>>} :
            LET path == ScanPath(barcode_input, L.df) IN
            \E default_status \in Field(path = "create", DeviceStatusValues, READY),
               logOut \in Field(path = "destroyrow", LogOutcomes(L.w), "ok"),
               saveOut \in Field(path # "empty", SaveOutcomes, "ok") :
                LET R == process_barcode_scan(L.w, barcode_input, L.df, default_status,
                                              now, username, logOut, saveOut)
                IN Commit(traced, R.w, Run("scan", path, barcode_input, default_status,
                                           L.df, R))

\* menu_add_device: the submitted form
AddPath(df, new_serial, new_name, new_status, confirm) ==
    IF ~validate_device_input(new_serial, new_name) THEN "invalid"
    ELSE IF check_duplicate_serial(df, new_serial, 0) THEN "duplicate"
    ELSE IF new_status = DESTROY THEN (IF confirm THEN "logonly" ELSE "unconfirmed")
    ELSE "add"

menu_add_device(w, df, new_serial, new_name, new_status, confirm, t, user, logOut, saveOut) ==
    LET path == AddPath(df, new_serial, new_name, new_status, confirm)
    IN CASE path = "logonly" ->
               [w |-> log_destroy(w, new_serial, t, user, logOut).w, ok |-> FALSE, df |-> df,
                saved |-> FALSE]
         [] path = "add" ->
               LET df1 == Append(df, NewRow(strip(new_serial), strip(new_name),
                                            new_status, t, user))
                   sv == save_data(w, df1, saveOut)
               IN [w |-> sv.w, ok |-> sv.ok, df |-> df1, saved |-> sv.ok]
         [] OTHER -> [w |-> w, ok |-> FALSE, df |-> df, saved |-> FALSE]

MenuAddDevice(traced) ==
    \E lo \in LoadOutcomes(Opened) :
        LET L == load_data(Opened, lo) IN
        \E new_name \in InputNames :
        \E new_serial \in Field(strip(new_name) # <<>>, InputStrings, <<"a">>) :
        \E new_status \in Field(AddPath(L.df, new_serial, new_name, READY, FALSE) = "add",
                                DeviceStatusValues, READY) :
        \E confirm \in Field(new_status = DESTROY, BOOLEAN, FALSE) :
            LET path == AddPath(L.df, new_serial, new_name, new_status, confirm) IN
            \E logOut \in Field(path = "logonly", LogOutcomes(L.w), "ok"),
               saveOut \in Field(path = "add", SaveOutcomes, "ok") :
                LET R == menu_add_device(L.w, L.df, new_serial, new_name, new_status,
                                         confirm, now, username, logOut, saveOut)
                IN Commit(traced, R.w, Run("add", path, new_serial, new_status,
                                           L.df, R))

\* menu_edit_device: a typed search serial and the form submitted with "Save Changes"
EditPath(df, edit_serial, new_serial, new_name, new_status, confirm) ==
    LET idx == find_device_by_serial(df, edit_serial)
    IN IF df = <<>> THEN "nodevices"
       ELSE IF idx = 0 THEN "notfound"
       ELSE IF ~validate_device_input(new_serial, new_name) THEN "invalid"
       ELSE IF check_duplicate_serial(df, new_serial, idx) THEN "duplicate"
       ELSE IF new_status = DESTROY THEN (IF confirm THEN "destroy" ELSE "unconfirmed")
       ELSE "edit"

menu_edit_device(w, df, edit_serial, new_serial, new_name, new_status, confirm, t, user, logOut, saveOut) ==
    LET idx == find_device_by_serial(df, edit_serial)
        path == EditPath(df, edit_serial, new_serial, new_name, new_status, confirm)
    IN CASE path = "destroy" ->
               LET lg == log_destroy(w, edit_serial, t, user, logOut)
                   df1 == RemoveAt(df, idx)
                   sv == save_data(lg.w, df1, saveOut)
               IN [w |-> sv.w, ok |-> sv.ok, df |-> df1, saved |-> sv.ok]
         [] path = "edit" ->
               LET df1 == [df EXCEPT ![idx] = NewRow(strip(new_serial), strip(new_name),
                                                     new_status, t, user)]
                   sv == save_data(w, df1, saveOut)
               IN [w |-> sv.w, ok |-> sv.ok, df |-> df1, saved |-> sv.ok]
         [] OTHER -> [w |-> w, ok |-> FALSE, df |-> df, saved |-> FALSE]

MenuEditDevice(traced) ==
    \E lo \in LoadOutcomes(Opened) :
        LET L == load_data(Opened, lo) IN
        \E edit_serial \in InputStrings \ {<<>>} :
        /\ find_device_by_serial(L.df, edit_serial) # 0
        /\ \E new_name \in InputNames :
           \E new_serial \in Field(strip(new_name) # <<>>, InputStrings, <<"a">>) :
           \E new_status \in Field(EditPath(L.df, edit_serial, new_serial, new_name,
                                            READY, FALSE) = "edit",
                                   DeviceStatusValues, READY) :
           \E confirm \in Field(new_status = DESTROY, BOOLEAN, FALSE) :
               LET path == EditPath(L.df, edit_serial, new_serial, new_name,
                                    new_status, confirm) IN
               \E logOut \in Field(path = "destroy", LogOutcomes(L.w), "ok"),
                  saveOut \in Field(path \in {"destroy", "edit"}, SaveOutcomes, "ok") :
                   LET R == menu_edit_device(L.w, L.df, edit_serial, new_serial,
                                             new_name, new_status, confirm, now,
                                             username, logOut, saveOut)
                   IN Commit(traced, R.w, Run("edit", path, edit_serial, new_status,
                                              L.df, R))

\* menu_update_status: a typed serial and the submitted form
UpdatePath(df, update_serial, new_status, confirm) ==
    LET idx == find_device_by_serial(df, update_serial)
    IN IF df = <<>> THEN "nodevices"
       ELSE IF idx = 0 THEN "notfound"
       ELSE IF new_status = df[idx].status THEN "same"
       ELSE IF new_status = DESTROY THEN (IF confirm THEN "destroy" ELSE "unconfirmed")
       ELSE "update"

menu_update_status(w, df, update_serial, new_status, confirm, t, user, logOut, saveOut) ==
    LET idx == find_device_by_serial(df, update_serial)
        path == UpdatePath(df, update_serial, new_status, confirm)
    IN CASE path = "destroy" ->
               LET lg == log_destroy(w, update_serial, t, user, logOut)
                   df1 == DropMatching(df, upper(update_serial))
                   sv == save_data(lg.w, df1, saveOut)
               IN [w |-> sv.w, ok |-> sv.ok, df |-> df1, saved |-> sv.ok]
         [] path = "update" ->
               LET df1 == [df EXCEPT ![idx].status = new_status,
                                     ![idx].stamp = strftime(t),
                                     ![idx].by = user]
                   sv == save_data(w, df1, saveOut)
               IN [w |-> sv.w, ok |-> sv.ok, df |-> df1, saved |-> sv.ok]
         [] OTHER -> [w |-> w, ok |-> FALSE, df |-> df, saved |-> FALSE]

MenuUpdateStatus(traced) ==
    \E lo \in LoadOutcomes(Opened) :
        LET L == load_data(Opened, lo) IN
        \E update_serial \in InputStrings \ {<<>>}, new_status \in DeviceStatusValues :
        /\ find_device_by_serial(L.df, update_serial) # 0
        /\ \E confirm \in Field(new_status = DESTROY, BOOLEAN, FALSE) :
               LET path == UpdatePath(L.df, update_serial, new_status, confirm) IN
               \E logOut \in Field(path = "destroy", LogOutcomes(L.w), "ok"),
                  saveOut \in Field(path \in {"destroy", "update"}, SaveOutcomes, "ok") :
                   LET R == menu_update_status(L.w, L.df, update_serial, new_status,
                                               confirm, now, username, logOut, saveOut)
                   IN Commit(traced, R.w, Run("update", path, update_serial, new_status,
                                              L.df, R))

\* The cache entry of load_data reaches its ttl
CacheExpire ==
    /\ cache.valid
    /\ cache' = NoCache
    /\ UNCHANGED <<worksheets, sheet, destroy_log, username, user_field, now, last, pc, wdf, finished>>

\* Names an operator can type in the "User" field
ActorNames == { "Nurse" }

\* menu_barcode_scanner: the operator types a name in the "User" field.  The
\* widget stores the text under its key user_field and the script reruns:
\* get_worksheet(), load_data(), and the page is drawn again.  No statement
\* reads user_field, so the runs of Spec and RunSpec leave this step out.
EnterUser ==
    \E name \in ActorNames \ {user_field}, lo \in LoadOutcomes(Opened) :
        LET L == load_data(Opened, lo)
        IN /\ user_field' = name
           /\ worksheets' = L.w.worksheets
           /\ sheet' = L.w.sheet
           /\ destroy_log' = L.w.destroy_log
           /\ cache' = L.w.cache
           /\ UNCHANGED <<username, now, last, pc, wdf, finished>>

-----------------------------------------------------------------------------
(* The application: script runs one after another from a new spreadsheet *)

Writers == {1, 2}

\* A writer's position: the call it is at, and the first row of its next batch
Idle == [at |-> "idle", i |-> 1]

Init ==
    /\ worksheets = {}
    /\ sheet = <<>>
    /\ destroy_log = <<>>
    /\ cache = NoCache
    /\ username = DefaultUsername
    /\ user_field = DefaultUsername
    /\ now = 0
    /\ last = NoRun
    /\ pc = [w \in Writers |-> Idle]
    /\ wdf = [w \in Writers |-> <<>>]
    /\ finished = <<>>

StoreUnavailable == MainStoreUnavailable(FALSE)
View == MenuView(FALSE)
Scanner == MenuScanner(FALSE)
AddDevice == MenuAddDevice(FALSE)
EditDevice == MenuEditDevice(FALSE)
UpdateStatus == MenuUpdateStatus(FALSE)

Next ==
    \/ StoreUnavailable
    \/ View
    \/ Scanner
    \/ AddDevice
    \/ EditDevice
    \/ UpdateStatus
    \/ CacheExpire

Spec == Init /\ [][Next]_vars

-----------------------------------------------------------------------------
(* One script run, from any spreadsheet the application can have produced:   *)
(* the run is traced, so that what it was given and what it returned can be  *)
(* compared.                                                                  *)

SeqsUpTo(S, n) == UNION { [1..k -> S] : k \in 0..n }

StoredSerials == { <<"a">>, <<"b">> }

StoredRows ==
    { NewRow(sn, PlaceholderName, st, 0, DefaultUsername) :
        sn \in StoredSerials, st \in DeviceStatusValues }

StoredLogs ==
    { <<>>,
      <<DESTROY_LOG_COLUMNS>>,
      <<DESTROY_LOG_COLUMNS, [serial |-> <<"b">>, at |-> strftime(0), by |-> DefaultUsername]>> }

\* s is t, or t with rows cut off its end
IsPrefix(s, t) == Len(s) <= Len(t) /\ SubSeq(t, 1, Len(s)) = s

RunInit ==
    /\ \E T \in SeqsUpTo(StoredRows, MaxRows) :
          /\ sheet = <<REQUIRED_COLUMNS>> \o T
          /\ cache \in { NoCache, [valid |-> TRUE, df |-> T] }
    /\ destroy_log \in StoredLogs
    /\ worksheets = IF destroy_log = <<>> THEN {SHEET_NAME}
                    ELSE {SHEET_NAME, DESTROY_LOG_NAME}
    /\ username = DefaultUsername
    /\ user_field = DefaultUsername
    /\ now \in 1..MaxClock     \* stored rows were stamped earlier, at 0
    /\ last = NoRun
    /\ pc = [w \in Writers |-> Idle]
    /\ wdf = [w \in Writers |-> <<>>]
    /\ finished = <<>>

TracedStoreUnavailable == last = NoRun /\ MainStoreUnavailable(TRUE)
TracedView == last = NoRun /\ MenuView(TRUE)
TracedScanner == last = NoRun /\ MenuScanner(TRUE)
TracedAddDevice == last = NoRun /\ MenuAddDevice(TRUE)
TracedEditDevice == last = NoRun /\ MenuEditDevice(TRUE)
TracedUpdateStatus == last = NoRun /\ MenuUpdateStatus(TRUE)

RunNext ==
    \/ TracedStoreUnavailable
    \/ TracedView
    \/ TracedScanner
    \/ TracedAddDevice
    \/ TracedEditDevice
    \/ TracedUpdateStatus

RunSpec == RunInit /\ [][RunNext]_vars

-----------------------------------------------------------------------------
(* Two operators, each in a script run of its own: load_data(), the scanner's *)
(* change to the loaded table, then save_data(), whose store calls (clear,   *)
(* header append, batch appends) are steps of their own and always succeed.  *)

WLoad(w) ==
    /\ pc[w].at = "idle"
    /\ \E lo \in LoadOutcomes(World) \ {"fail"} :
          LET L == load_data(World, lo)
          IN /\ wdf' = [wdf EXCEPT ![w] = L.df]
             /\ sheet' = L.w.sheet
             /\ cache' = L.w.cache
    /\ pc' = [pc EXCEPT ![w].at = "loaded"]
    /\ UNCHANGED <<worksheets, destroy_log, username, user_field, now, last, finished>>

WMutate(w) ==
    /\ pc[w].at = "loaded"
    /\ \E barcode_input \in InputStrings \ {<<>>}, default_status \in DeviceStatusValues :
          /\ ScanPath(barcode_input, wdf[w]) \in {"cycle", "create"}
          /\ wdf' = [wdf EXCEPT ![w] = ScanMutation(barcode_input, wdf[w], default_status,
                                                    now, username)]
    /\ pc' = [pc EXCEPT ![w].at = "clear"]
    /\ UNCHANGED <<worksheets, sheet, destroy_log, cache, username, user_field, now, last, finished>>

\* worksheet.clear()
WClear(w) ==
    /\ pc[w].at = "clear"
    /\ sheet' = <<>>
    /\ pc' = [pc EXCEPT ![w].at = "header"]
    /\ UNCHANGED <<worksheets, destroy_log, cache, username, user_field, now, last, wdf, finished>>

\* The end of save_data: the cache is cleared and True is returned
Returned(w, done) ==
    /\ cache' = IF done THEN NoCache ELSE cache
    /\ finished' = IF done THEN Append(finished, w) ELSE finished

\* worksheet.append_row(REQUIRED_COLUMNS)
WHeader(w) ==
    /\ pc[w].at = "header"
    /\ sheet' = Append(sheet, REQUIRED_COLUMNS)
    /\ pc' = [pc EXCEPT ![w].at = IF wdf[w] = <<>> THEN "done" ELSE "batch"]
    /\ Returned(w, wdf[w] = <<>>)
    /\ UNCHANGED <<worksheets, destroy_log, username, user_field, now, last, wdf>>

\* worksheet.append_rows(batch)
WBatch(w) ==
    /\ pc[w].at = "batch"
    /\ sheet' = sheet \o Batch(wdf[w], pc[w].i)
    /\ LET more == pc[w].i + batch_size <= Len(wdf[w])
       IN /\ pc' = [pc EXCEPT ![w] = IF more THEN [at |-> "batch", i |-> @.i + batch_size]
                                      ELSE [at |-> "done", i |-> @.i]]
          /\ Returned(w, ~more)
    /\ UNCHANGED <<worksheets, destroy_log, username, user_field, now, last, wdf>>

ConcInit ==
    /\ \E T \in SeqsUpTo(StoredRows, MaxRows - 1) : sheet = <<REQUIRED_COLUMNS>> \o T
    /\ cache = NoCache
    /\ destroy_log = <<>>
    /\ worksheets = {SHEET_NAME}
    /\ username = DefaultUsername
    /\ user_field = DefaultUsername
    /\ now = 0
    /\ last = NoRun
    /\ pc = [w \in Writers |-> Idle]
    /\ wdf = [w \in Writers |-> <<>>]
    /\ finished = <<>>

ConcNext ==
    \E w \in Writers :
        \/ WLoad(w)
        \/ WMutate(w)
        \/ WClear(w)
        \/ WHeader(w)
        \/ WBatch(w)

ConcSpec == ConcInit /\ [][ConcNext]_vars

-----------------------------------------------------------------------------
(* One operator at a spreadsheet whose Status cells may also be blank: the   *)
(* sheet is shared and load_data fills a column it does not find with "".    *)
(* The operator may type a name in the "User" field; then one traced run.    *)

\* A Status cell that holds none of the three values
BLANK == ""

SessionRows ==
    StoredRows \cup { NewRow(sn, PlaceholderName, BLANK, 0, DefaultUsername) :
                        sn \in StoredSerials }

SessionInit ==
    /\ \E T \in SeqsUpTo(SessionRows, MaxRows - 1) :
          /\ sheet = <<REQUIRED_COLUMNS>> \o T
          /\ cache \in { NoCache, [valid |-> TRUE, df |-> T] }
    /\ destroy_log \in StoredLogs
    /\ worksheets = IF destroy_log = <<>> THEN {SHEET_NAME}
                    ELSE {SHEET_NAME, DESTROY_LOG_NAME}
    /\ username = DefaultUsername
    /\ user_field = DefaultUsername
    /\ now \in 1..MaxClock
    /\ last = NoRun
    /\ pc = [w \in Writers |-> Idle]
    /\ wdf = [w \in Writers |-> <<>>]
    /\ finished = <<>>

TracedEnterUser == last = NoRun /\ EnterUser

SessionNext ==
    \/ TracedEnterUser
    \/ TracedScanner
    \/ TracedAddDevice
    \/ TracedEditDevice
    \/ TracedUpdateStatus

SessionSpec == SessionInit /\ [][SessionNext]_vars

-----------------------------------------------------------------------------
(* Properties *)

\* The device records in the Record Store
ActiveTable == get_all_records(sheet)

Other(status) == IF status = READY THEN RETURN ELSE READY

\* Row i of table df is a device with the serial that was typed or scanned
Matches(df, i, typed) == upper(df[i].serial) = upper(strip(typed))

\* C1: after any sequence of operations the active table contains no record
\* whose status is Destroy.
C1_NoDestroyInActiveTable ==
    \A i \in 1..Len(ActiveTable) : ActiveTable[i].status # DESTROY

\* C2: after any sequence of scan, add-device and edit-device operations no two
\* active records have serials that are equal when compared case-insensitively.
C2_SerialsUnique ==
    \A i, j \in 1..Len(ActiveTable) :
        i # j => upper(ActiveTable[i].serial) # upper(ActiveTable[j].serial)

\* C3: a confirmed explicit destroy of an existing device (edit-device or
\* update-status) always has all three effects: the Destroy Log has exactly one
\* more entry, the active table has exactly one record fewer, and
\* find_by_serial no longer finds the serial; also when the log append or the
\* save fails.
C3_DestroyHasAllEffects ==
    (last.op \in {"edit", "update"} /\ last.path = "destroy") =>
        /\ Len(LogEntries(destroy_log)) = Len(LogEntries(last.log0)) + 1
        /\ Len(ActiveTable) = Len(last.df0) - 1
        /\ Len(last.df1) = Len(last.df0) - 1
        /\ find_device_by_serial(ActiveTable, last.arg) = 0
        /\ find_device_by_serial(last.df1, last.arg) = 0

\* C4: when the save fails inside a scan (cycle, create and destroy-row path
\* alike) process_scan returns ok = false and the table it was given.
C4_FailedScanReturnsGivenTable ==
    (last.op = "scan" /\ last.path \in {"cycle", "create", "destroyrow"}
       /\ ~last.saved) =>
        ~last.ok /\ last.df1 = last.df0

\* C5: for every active device whose status is Ready or Return, two consecutive
\* successful scans of its serial, in any letter case, return its status to
\* the original value, the first scan giving the other of the two values; the
\* number of active records is unchanged.
C5_TwoScansRestoreStatus ==
    (last.op = "scan" /\ last.ok) =>
        \A i \in 1..Len(last.df0) :
            (last.df0[i].status \in {READY, RETURN} /\ Matches(last.df0, i, last.arg)) =>
                /\ Len(last.df1) = Len(last.df0)
                /\ last.df1[i].status = Other(last.df0[i].status)
                /\ \A again \in InputStrings :
                       upper(strip(again)) = upper(strip(last.arg)) =>
                           LET L == load_data(World, "ok")
                               R == process_barcode_scan(L.w, again, L.df, READY, now,
                                                         username, "ok", "ok")
                           IN /\ R.ok
                              /\ Len(R.df) = Len(last.df0)
                              /\ R.df[i].status = last.df0[i].status

C7_DestroyRowRemovedAndLogged ==
    (last.op = "scan" /\ last.path = "destroyrow") =>
        LET idx == find_device_by_serial(last.df0, strip(last.arg))
        IN /\ ActiveTable = RemoveAt(last.df0, idx)
           /\ LogEntries(destroy_log) =
                  Append(LogEntries(last.log0),
                         [serial |-> strip(last.arg), at |-> strftime(last.t),
                          by |-> username])

\* C8: after a save that returns true the Record Store holds exactly the rows of
\* the saved table, and the next load that reaches the store returns exactly
\* those rows: no cache entry from before the save is left to be served.
C8_LoadAfterSaveSeesSavedTable ==
    last.saved =>
        /\ ActiveTable = last.df1
        /\ sheet[1] = REQUIRED_COLUMNS
        /\ \A lo \in LoadOutcomes(World) \ {"fail"} : load_data(World, lo).df = last.df1

\* A save succeeded on a table that differs from the one the run had loaded
\* and cached
C8_Witness ==
    /\ last.saved
    /\ last.df1 # last.df0
    /\ last.df1 # <<>>
    /\ last.df0 # <<>>

\* C10: the Destroy Log is append-only: at each step the log is the previous log
\* with zero or more entries appended at its end.
C10_LogAppendOnly == [][IsPrefix(destroy_log, destroy_log')]_vars

\* The log holds an entry
C10_Witness == Len(destroy_log) >= 2 /\ LogEntries(destroy_log) # <<>>

\* C9: when two operators each run load, mutate, save against the same Record
\* Store, under every interleaving of their store calls the store after both
\* saves have returned equals exactly the table of the save that finished last.
C9_LastWriterWins ==
    (\A w \in Writers : pc[w].at = "done") =>
        sheet = <<REQUIRED_COLUMNS>> \o wdf[finished[Len(finished)]]

\* C11: a scan of an existing record whose stored status is not Destroy (Ready,
\* Return or a blank cell) never leaves that record with status Destroy, in the
\* table it returns or in the Record Store.
C11_ScanNeverWritesDestroy ==
    (last.op = "scan" /\ last.path = "cycle") =>
        LET idx == find_device_by_serial(last.df0, strip(last.arg))
        IN /\ last.df1[idx].status # DESTROY
           /\ last.saved => ActiveTable[idx].status # DESTROY

\* The row a traced run created or changed, as a position in the table it
\* returned; 0 when the run did neither
TouchedRow ==
    IF last.path \in {"create", "add"} THEN Len(last.df1)
    ELSE IF last.path = "cycle" THEN find_device_by_serial(last.df0, strip(last.arg))
    ELSE IF last.path \in {"edit", "update"} THEN find_device_by_serial(last.df0, last.arg)
    ELSE 0

\* C12: the record a scan, add-device, edit-device or update-status created or
\* changed carries the time of that run and the name most recently entered in
\* the "User" field (the default name when none was entered).
C12_TouchedByCurrentActor ==
    TouchedRow # 0 =>
        /\ last.df1[TouchedRow].stamp = strftime(last.t)
        /\ last.df1[TouchedRow].by = user_field

\* The branches of the menus that call save_data
SavingPaths == {"create", "cycle", "destroyrow", "add", "edit", "destroy", "update"}

\* Every record of table `before` is a record of table `after`
AllKept(before, after) ==
    \A i \in 1..Len(before) : \E j \in 1..Len(after) : after[j] = before[i]

\* C13: when save_data returns False, every record that was in the Record
\* Store before the call is still in it, whichever store call failed.
C13_FailedSaveLosesNoRecord ==
    (last.path \in SavingPaths /\ ~last.saved) =>
        AllKept(get_all_records(last.sheet0), ActiveTable)

\* C14: when load_data failed and returned the empty table while the Record
\* Store held records, a scan or add-device that then succeeds on that table
\* leaves every one of those records in the store.  (In a traced run the cache,
\* when valid, holds the stored table, so an empty table loaded from a store
\* with records is the fallback of a failed load.)
C14_FailedLoadThenSaveKeepsRecords ==
    ( /\ last.op \in {"scan", "add"}
      /\ last.saved
      /\ last.df0 = <<>>
      /\ get_all_records(last.sheet0) # <<>> ) =>
        AllKept(get_all_records(last.sheet0), ActiveTable)

\* C15: a run that only loads, from a Record Store without device rows,
\* returns the empty table and leaves the store without device rows, so that
\* every later load returns the empty table too.
C15_LoadOnEmptyStoreStaysEmpty ==
    (last.op = "view" /\ get_all_records(last.sheet0) = <<>>) =>
        /\ last.df1 = <<>>
        /\ ActiveTable = <<>>

====
